---- MODULE Spec2Model ----
(***************************************************************************)
(* A model of the AML byte cursor (AmlStream) and of the recursive-descent *)
(* AML parser (AmlParser) of src/src/aml/parser.rs.                        *)
(*                                                                         *)
(* Representation.                                                         *)
(*  - A byte is a number in 0..255; a byte slice is a sequence of bytes.   *)
(*    Rust indexes slices from 0, TLA+ sequences from 1: data[offset] in   *)
(*    the source is data[offset + 1] here.                                 *)
(*  - A Rust String is the sequence of its (ASCII) bytes.                  *)
(*  - u16/u32/u64 values produced by the fixed-width reads are kept as     *)
(*    little-endian base-256 digit tuples of their width (2, 4, 8 digits), *)
(*    so that 64-bit values stay exact; the shifts and additions of the    *)
(*    source are carried out on the digits.                                *)
(*  - A procedure returning Result<T, AmlError> becomes an operator that   *)
(*    returns [kind, val, err, st]: kind is "Ok", "Err" or "Abort" (a      *)
(*    panic: unimplemented!()), st the cursor or parser state it leaves.   *)
(***************************************************************************)
EXTENDS Integers, Sequences, FiniteSets, TLC

(***************************************************************************)
(* Opcodes (module opcodes, values as given by the grammar comments of     *)
(* parser.rs) and the ASCII characters the parser tests for.               *)
(***************************************************************************)
NULL_NAME == 0
ZERO_OP == 0
ONE_OP == 1
BYTE_CONST == 10
WORD_CONST == 11
DWORD_CONST == 12
STRING_PREFIX == 13
QWORD_CONST == 14
SCOPE_OP == 16
DUAL_NAME_PREFIX == 46
MULTI_NAME_PREFIX == 47
EXT_REVISION_OP == 48
EXT_OPCODE_PREFIX == 91
EXT_OP_REGION_OP == 128
EXT_FIELD_OP == 129
ONES_OP == 255

ROOT_CHAR == 92
PARENT_CHAR == 94
UNDERSCORE == 95
CHAR_A == 65
CHAR_Z == 90
CHAR_0 == 48
CHAR_9 == 57

(***************************************************************************)
(* Results and errors (enum AmlError as used by parser.rs).                *)
(***************************************************************************)
EndOfStream == <<"EndOfStream">>
BacktrackedFromStart == <<"BacktrackedFromStart">>
UnexpectedByte(byte) == <<"UnexpectedByte", byte>>
InvalidPath(path) == <<"InvalidPath", path>>

Ok(v, st) == [kind |-> "Ok", val |-> v, err |-> <<>>, st |-> st]
Err(e, st) == [kind |-> "Err", val |-> <<>>, err |-> e, st |-> st]
Abort(st) == [kind |-> "Abort", val |-> <<>>, err |-> <<>>, st |-> st]

IsOk(r) == r.kind = "Ok"
IsErr(r, tag) == r.kind = "Err" /\ r.err[1] = tag

\* `let v = x; F(v)`: x is evaluated once.
Let(x, F(_)) == CHOOSE y \in {F(v) : v \in {x}} : TRUE

\* `let v = r?; F(v)`: a failure or a panic of r is returned as it is.
Try(r, F(_)) == CHOOSE y \in {IF IsOk(v) THEN F(v) ELSE v : v \in {r}} : TRUE

(***************************************************************************)
(* Fixed-width unsigned arithmetic on little-endian base-256 digit tuples. *)
(***************************************************************************)
\* `byte as uN`: zero-extension of one byte to w digits.
Widen(byte, w) == [i \in 1..w |-> IF i = 1 THEN byte ELSE 0]

\* `x as u64` for a narrower digit tuple x.
Resize(x, w) == [i \in 1..w |-> IF i <= Len(x) THEN x[i] ELSE 0]

\* `x << bits` within the width of x (bits a multiple of 8, as in the source).
Shl(x, bits) ==
    LET k == bits \div 8
    IN  [i \in 1..Len(x) |-> IF i > k THEN x[i - k] ELSE 0]

RECURSIVE Carry(_, _, _)
Carry(x, y, i) ==
    IF i = 1 THEN 0 ELSE (x[i - 1] + y[i - 1] + Carry(x, y, i - 1)) \div 256

\* `x + y` within the width of x.
Add(x, y) == [i \in 1..Len(x) |-> (x[i] + y[i] + Carry(x, y, i)) % 256]

\* The digit tuple of a small number n (n < 2^31).
RECURSIVE Digits(_, _)
Digits(n, w) == IF w = 0 THEN <<>> ELSE <<n % 256>> \o Digits(n \div 256, w - 1)

(***************************************************************************)
(* AmlStream: the byte cursor.  s = [data |-> bytes, offset |-> Nat].      *)
(***************************************************************************)
new(bytes) == [data |-> bytes, offset |-> 0]

len(s) == Len(s.data)

offset(s) == s.offset

peek(s) ==
    IF (s.offset + 1) >= len(s)
    THEN Err(EndOfStream, s)
    ELSE Ok(s.data[s.offset + 1], s)

next(s) ==
    Try(peek(s), LAMBDA byte :
    Ok(byte.val, [s EXCEPT !.offset = @ + 1]))

next_u16(s) ==
    Try(next(s), LAMBDA first_byte :
    Try(next(first_byte.st), LAMBDA second_byte :
    Ok(Add(Widen(first_byte.val, 2), Shl(Widen(second_byte.val, 2), 8)),
       second_byte.st)))

next_u32(s) ==
    Try(next(s), LAMBDA first_byte :
    Try(next(first_byte.st), LAMBDA second_byte :
    Try(next(second_byte.st), LAMBDA third_byte :
    Ok(Add(Add(Widen(first_byte.val, 4), Shl(Widen(second_byte.val, 4), 8)),
           Shl(Widen(third_byte.val, 4), 16)),
       third_byte.st))))

next_u64(s) ==
    Try(next(s), LAMBDA first_byte :
    Try(next(first_byte.st), LAMBDA second_byte :
    Try(next(second_byte.st), LAMBDA third_byte :
    Try(next(third_byte.st), LAMBDA forth_byte :
    Ok(Add(Add(Add(Widen(first_byte.val, 8), Shl(Widen(second_byte.val, 8), 8)),
               Shl(Widen(third_byte.val, 8), 16)),
           Shl(Widen(forth_byte.val, 8), 24)),
       forth_byte.st)))))

\* The mutant of backtrack: moves back one byte too few.
backtrack_short(s, amount) ==
    IF s.offset >= amount
    THEN Ok(<<>>, [s EXCEPT !.offset = IF amount = 0 THEN @ ELSE @ - amount + 1])
    ELSE Err(BacktrackedFromStart, s)

\* offset.checked_sub(amount) is None exactly when amount > offset.
backtrack(s, amount) ==
    IF s.offset >= amount
    THEN Ok(<<>>, [s EXCEPT !.offset = @ - amount])
    ELSE Err(BacktrackedFromStart, s)

(***************************************************************************)
(* AmlParser.  self = [stream, scope, namespace]; namespace is the map     *)
(* acpi.namespace (path -> AmlValue), a function on the inserted paths.    *)
(***************************************************************************)
\* A result r of a call on self.stream as a result on the parser self.
OnStream(r, self) ==
    Let(r, LAMBDA v : [v EXCEPT !.st = [self EXCEPT !.stream = v.st]])

\* A predicate on bytes (F: Fn(u8) -> bool) is a function Byte -> BOOLEAN.
Byte == 0..255

matches_byte(byte) == [x \in Byte |-> x = byte]

is_lead_name_char == [byte \in Byte |-> (byte >= CHAR_A /\ byte <= CHAR_Z) \/ byte = UNDERSCORE]

is_digit_char == [byte \in Byte |-> byte >= CHAR_0 /\ byte <= CHAR_9]

is_name_char == [byte \in Byte |-> is_lead_name_char[byte] \/ is_digit_char[byte]]

consume_byte(self, predicate) ==
    Try(OnStream(next(self.stream), self), LAMBDA byte :
    IF predicate[byte.val] THEN byte ELSE Err(UnexpectedByte(byte.val), byte.st))

match_byte(self, predicate) ==
    Try(OnStream(peek(self.stream), self), LAMBDA byte :
    Ok(predicate[byte.val], byte.st))

consume_opcode(self, opcode) ==
    Try(consume_byte(self, matches_byte(opcode)), LAMBDA byte :
    Ok(<<>>, byte.st))

consume_ext_opcode(self, ext_opcode) ==
    Try(consume_byte(self, matches_byte(EXT_OPCODE_PREFIX)), LAMBDA prefix :
    Try(consume_byte(prefix.st, matches_byte(ext_opcode)), LAMBDA byte :
    Ok(<<>>, byte.st)))

match_opcode(self, opcode) == match_byte(self, matches_byte(opcode))

match_ext_opcode(self, ext_opcode) ==
    Try(match_byte(self, matches_byte(EXT_OPCODE_PREFIX)), LAMBDA m1 :
    IF ~m1.val THEN Ok(FALSE, self) ELSE
    Try(OnStream(next(self.stream), self), LAMBDA n :
    Try(match_byte(n.st, matches_byte(ext_opcode)), LAMBDA m2 :
    IF ~m2.val
    THEN Try(OnStream(backtrack(n.st.stream, 1), n.st), LAMBDA b : Ok(FALSE, b.st))
    ELSE Ok(TRUE, n.st))))

(***************************************************************************)
(* PkgLength.                                                              *)
(***************************************************************************)
RECURSIVE Pow2(_)
Pow2(n) == IF n = 0 THEN 1 ELSE 2 * Pow2(n - 1)

\* get_bits(lo..hi) of a byte.
get_bits(byte, lo, hi) == (byte \div Pow2(lo)) % Pow2(hi - lo)

\* The loop `for i in 0..byte_data_count { length += next()? << (4 + i * 8) }`,
\* from iteration i on.
RECURSIVE pkg_length_bytes(_, _, _, _)
pkg_length_bytes(self, i, byte_data_count, length) ==
    IF i >= byte_data_count THEN Ok(length, self) ELSE
    Try(OnStream(next(self.stream), self), LAMBDA byte :
    pkg_length_bytes(byte.st, i + 1, byte_data_count,
                     length + byte.val * Pow2(4 + i * 8)))

parse_pkg_length(self) ==
    Try(OnStream(next(self.stream), self), LAMBDA lead_byte :
    Let(get_bits(lead_byte.val, 6, 8), LAMBDA byte_data_count :
    IF byte_data_count = 0 THEN Ok(get_bits(lead_byte.val, 0, 6), lead_byte.st) ELSE
    Try(pkg_length_bytes(lead_byte.st, 0, byte_data_count,
                         get_bits(lead_byte.val, 0, 4)), LAMBDA length :
    Ok(offset(length.st.stream) + length.val - byte_data_count - 1, length.st))))

(***************************************************************************)
(* Names.                                                                  *)
(***************************************************************************)
parse_name_seg(self) ==
    Try(consume_byte(self, is_lead_name_char), LAMBDA c1 :
    Try(consume_byte(c1.st, is_name_char), LAMBDA c2 :
    Try(consume_byte(c2.st, is_name_char), LAMBDA c3 :
    Try(consume_byte(c3.st, is_name_char), LAMBDA c4 :
    Ok(<<c1.val, c2.val, c3.val, c4.val>>, c4.st)))))

parse_name_path(self) ==
    Try(OnStream(peek(self.stream), self), LAMBDA p :
    IF p.val = NULL_NAME
    THEN Try(OnStream(next(self.stream), self), LAMBDA n : Ok(<<>>, n.st))
    ELSE IF p.val = DUAL_NAME_PREFIX
    THEN Try(OnStream(next(self.stream), self), LAMBDA n :
         Try(parse_name_seg(n.st), LAMBDA first :
         Try(parse_name_seg(first.st), LAMBDA second :
         Ok(first.val \o second.val, second.st))))
    ELSE IF p.val = MULTI_NAME_PREFIX
    THEN Abort(self)
    ELSE parse_name_seg(self))

parse_name_string(self) ==
    Try(OnStream(peek(self.stream), self), LAMBDA p :
    IF p.val = ROOT_CHAR
    THEN Try(OnStream(next(self.stream), self), LAMBDA n :
         Try(parse_name_path(n.st), LAMBDA path :
         Ok(<<ROOT_CHAR>> \o path.val, path.st)))
    ELSE IF p.val = PARENT_CHAR
    THEN Abort(self)
    ELSE parse_name_path(self))

starts_with(path, char) == Len(path) > 0 /\ path[1] = char

\* The loop `while path.starts_with("^") { path = path[1..]; pop() ... }`
\* followed by `namespace_object + &path`.
RECURSIVE resolve_pops(_, _, _)
resolve_pops(namespace_object, path, original_path) ==
    IF ~starts_with(path, PARENT_CHAR)
    THEN [ok |-> TRUE, val |-> namespace_object \o path]
    ELSE IF Len(namespace_object) = 0
    THEN [ok |-> FALSE, val |-> original_path]
    ELSE resolve_pops(SubSeq(namespace_object, 1, Len(namespace_object) - 1),
                      Tail(path), original_path)

resolve_path(self, path) ==
    IF self.scope = <<>> \/ starts_with(path, ROOT_CHAR) THEN Ok(path, self) ELSE
    Let(resolve_pops(self.scope, path, path), LAMBDA r :
    IF r.ok THEN Ok(r.val, self) ELSE Err(InvalidPath(r.val), self))

(***************************************************************************)
(* Values (enum AmlValue, enum RegionSpace).                               *)
(***************************************************************************)
Integer(v) == [type |-> "Integer", value |-> v]

OpRegion(region, off, length) ==
    [type |-> "OpRegion", region |-> region, offset |-> off, length |-> length]

OemDefined(space) == <<"OemDefined", space>>

\* u64::max_value().
U64Max == [i \in 1..8 |-> 255]

\* AmlValue::as_integer applied to the value of r: the integer of an Integer.
as_integer(r) ==
    IF r.val.type = "Integer" THEN Ok(r.val.value, r.st)
    ELSE Err(<<"IncompatibleValueConversion">>, r.st)

(***************************************************************************)
(* Computational data and term arguments.                                  *)
(***************************************************************************)
parse_def_buffer(self) == Abort(self)

\* `self.stream.next()?; Ok(Integer(v))` for the three constant objects.
const_obj(self, v) ==
    Try(OnStream(next(self.stream), self), LAMBDA n : Ok(Integer(v), n.st))

parse_computational_data(self) ==
    Try(match_opcode(self, BYTE_CONST), LAMBDA m1 :
    IF m1.val
    THEN Try(consume_opcode(self, BYTE_CONST), LAMBDA c :
         Try(OnStream(next(c.st.stream), c.st), LAMBDA data :
         Ok(Integer(Widen(data.val, 8)), data.st)))
    ELSE
    Try(match_opcode(self, WORD_CONST), LAMBDA m2 :
    IF m2.val
    THEN Try(consume_opcode(self, WORD_CONST), LAMBDA c :
         Try(OnStream(next_u16(c.st.stream), c.st), LAMBDA data :
         Ok(Integer(Resize(data.val, 8)), data.st)))
    ELSE
    Try(match_opcode(self, DWORD_CONST), LAMBDA m3 :
    IF m3.val
    THEN Try(consume_opcode(self, DWORD_CONST), LAMBDA c :
         Try(OnStream(next_u32(c.st.stream), c.st), LAMBDA data :
         Ok(Integer(Resize(data.val, 8)), data.st)))
    ELSE
    Try(match_opcode(self, QWORD_CONST), LAMBDA m4 :
    IF m4.val
    THEN Try(consume_opcode(self, QWORD_CONST), LAMBDA c :
         Try(OnStream(next_u64(c.st.stream), c.st), LAMBDA data :
         Ok(Integer(Resize(data.val, 8)), data.st)))
    ELSE
    Try(match_opcode(self, STRING_PREFIX), LAMBDA m5 :
    IF m5.val THEN Abort(self) ELSE
    Try(match_opcode(self, ZERO_OP), LAMBDA m6 :
    IF m6.val THEN const_obj(self, Digits(0, 8)) ELSE
    Try(match_opcode(self, ONE_OP), LAMBDA m7 :
    IF m7.val THEN const_obj(self, Digits(1, 8)) ELSE
    Try(match_opcode(self, ONES_OP), LAMBDA m8 :
    IF m8.val THEN const_obj(self, U64Max) ELSE
    Try(match_ext_opcode(self, EXT_REVISION_OP), LAMBDA m9 :
    IF m9.val THEN Abort(m9.st) ELSE
    parse_def_buffer(m9.st))))))))))

\* parse_field_element is unimplemented!(): the first iteration of the loop
\* `while offset < end_offset` panics.
parse_field_list(self, end_offset) ==
    IF offset(self.stream) < end_offset THEN Abort(self) ELSE Ok(<<>>, self)

parse_def_field(self) ==
    Try(consume_ext_opcode(self, EXT_FIELD_OP), LAMBDA c :
    Try(parse_pkg_length(c.st), LAMBDA end_offset :
    Try(parse_name_string(end_offset.st), LAMBDA name :
    Try(OnStream(next(name.st.stream), name.st), LAMBDA field_flags :
    parse_field_list(field_flags.st, end_offset.val)))))

parse_type1_opcode(self) == Abort(self)

\* Option<T>: None is <<>>, Some(v) is <<v>>.
None == <<>>
Some(v) == <<v>>

\* The parsing functions handed to try_parse, by name.
parsing_function(name, self) ==
    CASE name = "parse_def_field" -> parse_def_field(self)
      [] name = "parse_type1_opcode" -> parse_type1_opcode(self)
      [] name = "parse_computational_data" -> parse_computational_data(self)

\* The mutant of try_parse: restores the saved stream on every outcome.
try_parse_restore_always(self, name) ==
    Let(parsing_function(name, self), LAMBDA r :
    IF r.kind = "Ok" THEN Ok(Some(r.val), [r.st EXCEPT !.stream = self.stream])
    ELSE IF IsErr(r, "UnexpectedByte")
    THEN Ok(None, [r.st EXCEPT !.stream = self.stream])
    ELSE r)

\* The mutant of try_parse: reports no match without restoring the stream.
try_parse_no_restore(self, name) ==
    Let(parsing_function(name, self), LAMBDA r :
    IF r.kind = "Ok" THEN Ok(Some(r.val), r.st)
    ELSE IF IsErr(r, "UnexpectedByte") THEN Ok(None, r.st)
    ELSE r)

\* self.stream is the clone `stream` taken before the call.
try_parse(self, name) ==
    Let(parsing_function(name, self), LAMBDA r :
    IF r.kind = "Ok" THEN Ok(Some(r.val), r.st)
    ELSE IF IsErr(r, "UnexpectedByte")
    THEN Ok(None, [r.st EXCEPT !.stream = self.stream])
    ELSE r)

parse_term_arg(self) ==
    Try(try_parse(self, "parse_computational_data"), LAMBDA t :
    IF t.val # None THEN Ok(t.val[1], t.st) ELSE
    Try(OnStream(next(t.st.stream), t.st), LAMBDA n :
    Err(UnexpectedByte(n.val), n.st)))

(***************************************************************************)
(* Named objects.                                                          *)
(***************************************************************************)
RegionSpaceNames ==
    << "SystemMemory", "SystemIo", "PciConfig", "EmbeddedControl", "SMBus",
       "SystemCmos", "PciBarTarget", "IPMI", "GeneralPurposeIo", "GenericSerialBus" >>

\* The match on the region-space byte; the pattern 0x80..0xff excludes 0xff.
region_space(byte, st) ==
    IF byte <= 9 THEN Ok(<<RegionSpaceNames[byte + 1]>>, st)
    ELSE IF byte >= 128 /\ byte < 255 THEN Ok(OemDefined(byte), st)
    ELSE Err(UnexpectedByte(byte), st)

\* namespace.insert(path, value): the last write to a path wins.
insert(namespace, path, value) == (path :> value) @@ namespace

parse_def_op_region(self) ==
    \* The result of consume_ext_opcode is dropped; the bytes it consumed are not.
    Let(consume_ext_opcode(self, EXT_OPCODE_PREFIX), LAMBDA c :
    Try(parse_name_string(c.st), LAMBDA name :
    Try(OnStream(next(name.st.stream), name.st), LAMBDA byte :
    Try(region_space(byte.val, byte.st), LAMBDA region :
    Try(parse_term_arg(region.st), LAMBDA offset_arg :
    Try(as_integer(offset_arg), LAMBDA off :
    Try(parse_term_arg(off.st), LAMBDA length_arg :
    Try(as_integer(length_arg), LAMBDA length :
    Try(resolve_path(length.st, name.val), LAMBDA namespace_path :
    Ok(<<>>, [namespace_path.st EXCEPT !.namespace =
                 insert(@, namespace_path.val,
                        OpRegion(region.val, off.val, length.val))]))))))))))

\* parse_term_object after its first test (the stream does not start with
\* the scope opcode).
parse_named_or_type1(self) ==
    Try(match_ext_opcode(self, EXT_OP_REGION_OP), LAMBDA m :
    IF m.val THEN parse_def_op_region(m.st) ELSE
    Try(try_parse(m.st, "parse_def_field"), LAMBDA f :
    IF f.val # None THEN Ok(<<>>, f.st) ELSE
    Try(try_parse(f.st, "parse_type1_opcode"), LAMBDA t :
    IF t.val # None THEN Ok(<<>>, t.st) ELSE
    Try(OnStream(peek(t.st.stream), t.st), LAMBDA p :
    Err(UnexpectedByte(p.val), p.st)))))

\* parse_def_scope up to the call of the nested parse_term_list: val is the
\* frame [end_offset, containing_scope] of that call.
parse_def_scope_enter(self) ==
    Try(consume_opcode(self, SCOPE_OP), LAMBDA c :
    Try(parse_pkg_length(c.st), LAMBDA scope_end_offset :
    Try(parse_name_string(scope_end_offset.st), LAMBDA name_string :
    Ok([end_offset |-> scope_end_offset.val, containing_scope |-> self.scope],
       [name_string.st EXCEPT !.scope = name_string.val]))))

(***************************************************************************)
(* Inputs.                                                                 *)
(***************************************************************************)
\* Bounds of the model.
MaxLen == 3
MaxBacktrack == 4
MaxPops == 6

Alphabet == {ZERO_OP, BYTE_CONST, SCOPE_OP, EXT_OPCODE_PREFIX,
             EXT_OP_REGION_OP, EXT_FIELD_OP}

\* "OPR1", "DEV0", "\", "\_SB_", "\_SB_PCI0".
OPR1 == <<79, 80, 82, 49>>
DEV0 == <<68, 69, 86, 48>>
RootScope == <<ROOT_CHAR>>
SB == <<ROOT_CHAR, 95, 83, 66, 95>>
SBPCI0 == SB \o <<80, 67, 73, 48>>

\* DefOpRegion OPR1, SystemMemory, ByteConst 0x10, ByteConst 0x04.
OpRegionStream ==
    <<EXT_OPCODE_PREFIX, EXT_OP_REGION_OP>> \o OPR1 \o <<0, BYTE_CONST, 16, BYTE_CONST, 4>>

ScriptedStreams ==
    { OpRegionStream,
      OpRegionStream \o <<ZERO_OP>>,
      \* an OEM-defined region with word and dword constants
      <<EXT_OPCODE_PREFIX, EXT_OP_REGION_OP>> \o OPR1
          \o <<ONES_OP, WORD_CONST, 52, 18, DWORD_CONST, 120, 86, 52, 18, 0>>,
      \* ten distinct bytes, for the fixed-width reads
      <<1, 2, 3, 4, 5, 6, 7, 8, 9, 10>>,
      <<QWORD_CONST, 1, 2, 3, 4, 5, 6, 7, 8, 0>>,
      \* literals that end the slice, and the same followed by one byte
      <<BYTE_CONST, 255>>, <<BYTE_CONST, 255, 0>>, <<ONE_OP>>, <<ONE_OP, 0>>,
      <<ONES_OP>>, <<ONES_OP, 0>>,
      \* DefScope with a null name whose end offset is the offset after its header,
      \* followed by a nested DefScope
      <<SCOPE_OP, 3, NULL_NAME, SCOPE_OP, 0, NULL_NAME, 0>>,
      \* DefScope \_SB_ holding a DefOpRegion
      <<SCOPE_OP, 32>> \o SB \o OpRegionStream \o <<ZERO_OP>>,
      \* DefField with an empty field list, and with a non-empty one
      <<EXT_OPCODE_PREFIX, EXT_FIELD_OP, 0, NULL_NAME, 0, 0>>,
      <<EXT_OPCODE_PREFIX, EXT_FIELD_OP, 16, NULL_NAME, 0, 0>>,
      \* PkgLength prefixes with 0, 1, 2 and 3 following bytes
      <<5, 0>>, <<69, 1, 0>>, <<133, 1, 2, 0>>, <<197, 1, 2, 3, 0>> }

Streams == ScriptedStreams \cup UNION {[1..k -> Alphabet] : k \in 0..MaxLen}

Scopes == {<<>>, RootScope, SB, SBPCI0}

\* DefOpRegion OPR1 with the region-space byte b, ByteConst 0x10, ByteConst
\* 0x04, followed by one more byte.
RegionStream(b) ==
    <<EXT_OPCODE_PREFIX, EXT_OP_REGION_OP>> \o OPR1
        \o <<b, BYTE_CONST, 16, BYTE_CONST, 4, ZERO_OP>>

\* k parent-pop markers followed by DEV0, and the root-anchored \DEV0.
Pops(k) == [i \in 1..k |-> PARENT_CHAR]
Paths == {Pops(k) \o DEV0 : k \in 0..MaxPops} \cup {<<ROOT_CHAR>> \o DEV0}

ParsingFunctions == {"parse_def_field", "parse_type1_opcode", "parse_computational_data"}

(***************************************************************************)
(* The state machine.                                                      *)
(*   stream, scope, namespace : the fields of AmlParser (namespace through *)
(*                              acpi)                                      *)
(*   frames : the active parse_term_list calls, innermost last; each is    *)
(*            [end_offset, containing_scope, def_scope]                    *)
(*   pc     : "idle" (constructed), "parsing" (inside parse), "returned"   *)
(*            (parse returned), "aborted" (a panic)                        *)
(*   args   : the scope and the stream offset parse was entered with       *)
(*   call   : the last call made, with the state it was made in            *)
(*   ret    : what that call returned                                      *)
(*   reads  : the run of successful next() calls just made: the offset it  *)
(*            started from and the bytes it returned                       *)
(*   undo   : the run that the last backtrack took back                    *)
(***************************************************************************)
VARIABLES stream, scope, namespace, frames, pc, args, call, ret, reads, undo

vars == <<stream, scope, namespace, frames, pc, args, call, ret, reads, undo>>

Self == [stream |-> stream, scope |-> scope, namespace |-> namespace]

NoRun(from) == [from |-> from, bytes |-> <<>>]

\* What a call c returned: the value of an Ok result is kept with the name of
\* the procedure that produced it.
Producer(c) == IF c.op = "try_parse" THEN c.parsing_function ELSE c.op
Returned(c, r) ==
    [kind |-> r.kind, val |-> IF IsOk(r) THEN <<Producer(c), r.val>> ELSE <<>>,
     err |-> r.err]

EmptyNamespace == <<>>

\* AmlStream::new on a slice and the construction of the parser on it (the
\* enumerated slices at root scope, the scripted ones at every scope).
Init ==
    /\ \E bytes \in Streams : stream = new(bytes)
    /\ scope \in Scopes
    /\ stream.data \in ScriptedStreams \/ scope = RootScope
    /\ namespace = EmptyNamespace
    /\ frames = <<>>
    /\ pc = "idle"
    /\ args = [scope |-> scope, offset |-> 0]
    /\ call = [op |-> "new"]
    /\ ret = Returned(call, Ok(<<>>, <<>>))
    /\ reads = NoRun(0)
    /\ undo = NoRun(0)

\* The effect of a call on the cursor alone that returned r.
StreamCall(c, r) ==
    /\ call' = c
    /\ ret' = Returned(c, r)
    /\ stream' = r.st
    /\ pc' = IF r.kind = "Abort" THEN "aborted" ELSE pc
    /\ UNCHANGED <<scope, namespace, frames, args>>

\* The effect of a call on the parser that returned r.
ParserCall(c, r) ==
    /\ call' = c
    /\ ret' = Returned(c, r)
    /\ stream' = r.st.stream
    /\ scope' = r.st.scope
    /\ namespace' = r.st.namespace
    /\ pc' = IF r.kind = "Abort" THEN "aborted" ELSE pc
    /\ UNCHANGED <<frames, args>>

ForgetRuns == reads' = NoRun(stream'.offset) /\ undo' = NoRun(0)

CallPeek ==
    /\ pc = "idle"
    /\ StreamCall([op |-> "peek", pre |-> Self], peek(stream))
    /\ ForgetRuns

CallNext ==
    /\ pc = "idle"
    /\ LET r == next(stream) IN
       /\ StreamCall([op |-> "next", pre |-> Self], r)
       /\ IF IsOk(r)
          THEN /\ reads' = [reads EXCEPT !.bytes = Append(@, r.val)]
               /\ undo' = IF Len(reads.bytes) < Len(undo.bytes) THEN undo ELSE NoRun(0)
          ELSE ForgetRuns

CallNextU16 ==
    /\ pc = "idle"
    /\ StreamCall([op |-> "next_u16", pre |-> Self], next_u16(stream))
    /\ ForgetRuns

CallNextU32 ==
    /\ pc = "idle"
    /\ StreamCall([op |-> "next_u32", pre |-> Self], next_u32(stream))
    /\ ForgetRuns

CallNextU64 ==
    /\ pc = "idle"
    /\ StreamCall([op |-> "next_u64", pre |-> Self], next_u64(stream))
    /\ ForgetRuns

CallBacktrack ==
    /\ pc = "idle"
    /\ \E amount \in 0..MaxBacktrack :
          LET r == backtrack(stream, amount) IN
          /\ StreamCall([op |-> "backtrack", amount |-> amount, run |-> reads,
                         pre |-> Self], r)
          /\ reads' = NoRun(stream'.offset)
          /\ undo' = IF IsOk(r) /\ amount > 0 /\ amount = Len(reads.bytes)
                     THEN reads ELSE NoRun(0)

CallParsePkgLength ==
    /\ pc = "idle"
    /\ ParserCall([op |-> "parse_pkg_length", pre |-> Self], parse_pkg_length(Self))
    /\ ForgetRuns

CallResolvePath ==
    /\ pc = "idle"
    /\ \E path \in Paths :
          ParserCall([op |-> "resolve_path", path |-> path, pre |-> Self],
                     resolve_path(Self, path))
    /\ ForgetRuns

CallTryParse ==
    /\ pc = "idle"
    /\ \E name \in ParsingFunctions :
          ParserCall([op |-> "try_parse", parsing_function |-> name, pre |-> Self],
                     try_parse(Self, name))
    /\ ForgetRuns

CallParseTermArg ==
    /\ pc = "idle"
    /\ ParserCall([op |-> "parse_term_arg", pre |-> Self], parse_term_arg(Self))
    /\ ForgetRuns

(***************************************************************************)
(* parse and the term-list loop, one action per iteration.                 *)
(***************************************************************************)
Frame(end_offset, containing_scope, def_scope) ==
    [end_offset |-> end_offset, containing_scope |-> containing_scope,
     def_scope |-> def_scope]

Top == frames[Len(frames)]

\* parse: the term list of the whole stream.
Parse ==
    /\ pc = "idle"
    /\ pc' = "parsing"
    /\ frames' = <<Frame(len(stream), scope, FALSE)>>
    /\ args' = [scope |-> scope, offset |-> offset(stream)]
    /\ call' = [op |-> "parse", pre |-> Self]
    /\ ret' = Returned(call', Ok(<<>>, <<>>))
    /\ UNCHANGED <<stream, scope, namespace>>
    /\ ForgetRuns

\* A failure or panic inside the loop leaves every active call at once.
Leave(r) ==
    /\ pc' = IF r.kind = "Abort" THEN "aborted" ELSE "returned"
    /\ UNCHANGED frames

\* The loop condition of parse_term_list.
term_list_continues(s, end_offset) == offset(s) <= end_offset

\* One iteration whose term object is not a DefScope.
ParseTermObject ==
    /\ pc = "parsing"
    /\ term_list_continues(stream, Top.end_offset)
    /\ LET m == match_opcode(Self, SCOPE_OP)
           r == IF ~IsOk(m) THEN m ELSE parse_named_or_type1(Self)
       IN  /\ ~(IsOk(m) /\ m.val)
           /\ call' = [op |-> "parse_term_object", end_offset |-> Top.end_offset,
                       pre |-> Self]
           /\ ret' = Returned(call', r)
           /\ stream' = r.st.stream
           /\ scope' = r.st.scope
           /\ namespace' = r.st.namespace
           /\ IF IsOk(r) THEN UNCHANGED <<pc, frames>> ELSE Leave(r)
    /\ UNCHANGED args
    /\ ForgetRuns

\* One iteration whose term object is a DefScope: up to the nested term list.
ParseDefScope ==
    /\ pc = "parsing"
    /\ term_list_continues(stream, Top.end_offset)
    /\ LET m == match_opcode(Self, SCOPE_OP)
           r == parse_def_scope_enter(Self)
       IN  /\ IsOk(m) /\ m.val
           /\ call' = [op |-> "parse_term_object", end_offset |-> Top.end_offset,
                       pre |-> Self]
           /\ ret' = Returned(call', IF IsOk(r) THEN Ok(<<>>, <<>>) ELSE r)
           /\ stream' = r.st.stream
           /\ scope' = r.st.scope
           /\ namespace' = r.st.namespace
           /\ IF IsOk(r)
              THEN /\ frames' = Append(frames,
                                       Frame(r.val.end_offset, r.val.containing_scope, TRUE))
                   /\ pc' = pc
              ELSE Leave(r)
    /\ UNCHANGED args
    /\ ForgetRuns

\* The loop condition fails: parse_term_list returns Ok; a DefScope then
\* restores the containing scope and returns Ok to the enclosing iteration.
ParseTermListReturn ==
    /\ pc = "parsing"
    /\ ~term_list_continues(stream, Top.end_offset)
    /\ call' = [op |-> "parse_term_list_return", end_offset |-> Top.end_offset,
                frame |-> Top, pre |-> Self]
    /\ ret' = Returned(call', Ok(<<>>, <<>>))
    /\ scope' = IF Top.def_scope THEN Top.containing_scope ELSE scope
    /\ frames' = SubSeq(frames, 1, Len(frames) - 1)
    /\ pc' = IF Len(frames) = 1 THEN "returned" ELSE pc
    /\ UNCHANGED <<stream, namespace, args>>
    /\ ForgetRuns

ParseStep == ParseTermObject \/ ParseDefScope \/ ParseTermListReturn

Next ==
    \/ CallPeek
    \/ CallNext
    \/ CallNextU16
    \/ CallNextU32
    \/ CallNextU64
    \/ CallBacktrack
    \/ CallParsePkgLength
    \/ CallResolvePath
    \/ CallTryParse
    \/ CallParseTermArg
    \/ Parse
    \/ ParseTermObject
    \/ ParseDefScope
    \/ ParseTermListReturn

Spec == Init /\ [][Next]_vars

\* parse at root scope of an operation-region declaration, for every
\* region-space byte.
RegionInit ==
    /\ \E b \in Byte : stream = new(RegionStream(b))
    /\ scope = RootScope
    /\ namespace = EmptyNamespace
    /\ frames = <<>>
    /\ pc = "idle"
    /\ args = [scope |-> scope, offset |-> 0]
    /\ call = [op |-> "new"]
    /\ ret = Returned(call, Ok(<<>>, <<>>))
    /\ reads = NoRun(0)
    /\ undo = NoRun(0)

RegionNext == Parse \/ ParseTermObject

RegionSpec == RegionInit /\ [][RegionNext]_vars

\* parse runs synchronously on the caller's stack: once entered, its loop
\* keeps taking steps.
FairSpec == Spec /\ WF_vars(ParseStep)

(***************************************************************************)
(* Properties.                                                             *)
(***************************************************************************)
\* The offset a call was made at, the slice, and the bytes that remained.
PreOffset == call.pre.stream.offset
Data == stream.data
Remaining == Len(Data) - PreOffset

\* The n bytes at the offset of the call: the little-endian digits of the
\* integer they encode.
BytesAt(n) == SubSeq(Data, PreOffset + 1, PreOffset + n)

ReturnedOk(v) == ret.kind = "Ok" /\ ret.val[2] = v
ReturnedErr(e) == ret.kind = "Err" /\ ret.err = e

FixedWidthRead(op, n) ==
    (call.op = op /\ Remaining >= n) =>
        /\ ReturnedOk(BytesAt(n))
        /\ stream.offset = PreOffset + n

\* C1: with at least 2, 4 or 8 bytes remaining, next_u16, next_u32 and next_u64
\* return the little-endian integer of exactly the next 2, 4 or 8 bytes and
\* advance the offset by exactly 2, 4 or 8.
C1_FixedWidthReads ==
    /\ FixedWidthRead("next_u16", 2)
    /\ FixedWidthRead("next_u32", 4)
    /\ FixedWidthRead("next_u64", 8)

\* parse was called and has returned or panicked.
ParseFinished == pc = "returned" \/ (pc = "aborted" /\ frames # <<>>)

OpRegionEntry ==
    (RootScope \o OPR1) :> OpRegion(<<"SystemMemory">>, Digits(16, 8), Digits(4, 8))

\* C2: parse at root scope of the stream 5B 80 "OPR1" 00 0A 10 0A 04 inserts
\* exactly one namespace entry, \OPR1, an operation region in system memory
\* with offset 16 and length 4.
C2_OpRegionScenario ==
    (/\ ParseFinished
     /\ Data = OpRegionStream
     /\ args = [scope |-> RootScope, offset |-> 0])
        => namespace = OpRegionEntry

\* C3: parse_term_list(E) never starts a term-object parse while the offset
\* is greater than or equal to E.
C3_TermListBoundary ==
    call.op = "parse_term_object" => PreOffset < call.end_offset

\* The PkgLength at the offset of the call, decoded as the claim C4 states it.
LeadByte == Data[PreOffset + 1]
ExtraBytes == LeadByte \div 64
EncodedLength ==
    IF ExtraBytes = 0 THEN LeadByte % 64
    ELSE (LeadByte % 16)
         + (IF ExtraBytes >= 1 THEN Data[PreOffset + 2] * 16 ELSE 0)
         + (IF ExtraBytes >= 2 THEN Data[PreOffset + 3] * 4096 ELSE 0)
         + (IF ExtraBytes >= 3 THEN Data[PreOffset + 4] * 1048576 ELSE 0)

\* C4: a parse_pkg_length that decodes a prefix has consumed exactly c + 1
\* bytes and returns the offset o + L - (c + 1), o the offset after the
\* prefix, for every extra-byte count c and encoded length L.
C4_PkgLengthEndOffset ==
    (call.op = "parse_pkg_length" /\ ret.kind = "Ok") =>
        /\ stream.offset = PreOffset + ExtraBytes + 1
        /\ ReturnedOk(stream.offset + EncodedLength - (ExtraBytes + 1))

\* C5: peek and next return EndOfStream only when no byte remains; with at
\* least one byte remaining peek returns the byte at the offset and leaves the
\* offset, next returns it and advances the offset by one.
C5_PeekNextEndOfStream ==
    call.op \in {"peek", "next"} =>
        /\ ReturnedErr(EndOfStream) => Remaining = 0
        /\ Remaining >= 1 =>
              /\ ReturnedOk(Data[PreOffset + 1])
              /\ stream.offset = IF call.op = "next" THEN PreOffset + 1 ELSE PreOffset

\* The number of leading parent-pop markers of a path, and the name segments
\* of a scope (four characters each, after the root character).
RECURSIVE LeadingPops(_)
LeadingPops(path) ==
    IF starts_with(path, PARENT_CHAR) THEN 1 + LeadingPops(Tail(path)) ELSE 0
SegmentCount(s) == (IF starts_with(s, ROOT_CHAR) THEN Len(s) - 1 ELSE Len(s)) \div 4

\* C6: resolve_path with scope \_SB_ and name DEV0 returns \_SB_DEV0; k leading
\* parent-pop markers remove k whole name segments from the scope before the
\* rest of the name is appended; k beyond the segments of the scope is
\* InvalidPath.  (Stated for a relative name and a scope that is not empty:
\* the other names are returned as given.)
C6_ResolvePathSegments ==
    (/\ call.op = "resolve_path"
     /\ ~starts_with(call.path, ROOT_CHAR)
     /\ call.pre.scope # <<>>) =>
        LET k == LeadingPops(call.path)
            current == call.pre.scope
            rest == SubSeq(call.path, k + 1, Len(call.path))
        IN  /\ (current = SB /\ call.path = DEV0) => ReturnedOk(SB \o DEV0)
            /\ (k >= 1 /\ k <= SegmentCount(current)) =>
                  ReturnedOk(SubSeq(current, 1, Len(current) - 4 * k) \o rest)
            /\ k > SegmentCount(current) => ReturnedErr(InvalidPath(call.path))

\* What the parsing function of the last try_parse call does on the state the
\* call was made in.
Speculated == parsing_function(call.parsing_function, call.pre)

C8_Literals ==
    call.op = "parse_term_arg" =>
        /\ (Remaining >= 2 /\ BytesAt(2) = <<BYTE_CONST, 255>>) =>
              ReturnedOk(Integer(Digits(255, 8))) /\ stream.offset = PreOffset + 2
        /\ (Remaining >= 1 /\ BytesAt(1) = <<ZERO_OP>>) =>
              ReturnedOk(Integer(Digits(0, 8))) /\ stream.offset = PreOffset + 1
        /\ (Remaining >= 1 /\ BytesAt(1) = <<ONE_OP>>) =>
              ReturnedOk(Integer(Digits(1, 8))) /\ stream.offset = PreOffset + 1
        /\ (Remaining >= 1 /\ BytesAt(1) = <<ONES_OP>>) =>
              ReturnedOk(Integer(U64Max)) /\ stream.offset = PreOffset + 1

\* C9: after K successful next calls from offset o, backtrack(K) returns ok
\* with the offset o again and reading again returns the same bytes;
\* backtrack(n) with n beyond the offset is BacktrackedFromStart and leaves
\* the offset.
C9_BacktrackInverse ==
    /\ (call.op = "backtrack" /\ call.amount = Len(call.run.bytes)) =>
          /\ ret.kind = "Ok"
          /\ stream.offset = call.run.from
    /\ undo.bytes # <<>> =>
          /\ reads.from = undo.from
          /\ Len(reads.bytes) <= Len(undo.bytes)
          /\ reads.bytes = SubSeq(undo.bytes, 1, Len(reads.bytes))
          /\ Len(reads.bytes) < Len(undo.bytes) => IsOk(next(stream))
    /\ (call.op = "backtrack" /\ call.amount > PreOffset) =>
          /\ ReturnedErr(BacktrackedFromStart)
          /\ stream.offset = PreOffset

\* Three bytes were read, taken back by backtrack(3), and read again.
C9_Witness ==
    /\ Len(undo.bytes) = 3
    /\ reads = undo

\* C10: every call of parse terminates, by returning or by a panic.
C10_ParseTerminates == (pc = "parsing") ~> ParseFinished

\* parse ended inside a nested term list whose decoded end offset lies beyond
\* the end of the slice.
C10_Witness ==
    /\ ParseFinished
    /\ Len(frames) >= 2
    /\ Top.end_offset > len(stream)

\* The innermost parse_def_scope whose nested term list is still active.
InDefScope == frames # <<>> /\ Top.def_scope

\* C11: when parse_def_scope returns, with Ok after its nested term list or
\* with the error its nested term list propagated, the parser's scope is the
\* scope it had when parse_def_scope was entered.
C11_ScopeRestored ==
    /\ (call.op = "parse_term_list_return" /\ call.frame.def_scope) =>
           scope = call.frame.containing_scope
    /\ (pc = "returned" /\ ret.kind = "Err" /\ InDefScope) =>
           scope = Top.containing_scope

\* The namespace holding \OPR1 alone, a region in the given space with offset
\* 16 and length 4.
RegionEntry(space) ==
    (RootScope \o OPR1) :> OpRegion(space, Digits(16, 8), Digits(4, 8))

\* The declaration with region-space byte b has just been parsed.
RegionParsed(b) ==
    call.op = "parse_term_object" /\ PreOffset = 0 /\ Data = RegionStream(b)

\* C12: the region-space byte b of an operation-region declaration maps, for
\* every b in 0..255, to the b-th named region space when b is 0x00-0x09, to
\* OEM-defined carrying b when b is 0x80-0xFF (0xFF included), and fails with
\* UnexpectedByte(b) otherwise.
C12_RegionSpaceMapping ==
    \A b \in Byte : RegionParsed(b) =>
        IF b <= 9
        THEN ret.kind = "Ok" /\ namespace = RegionEntry(<<RegionSpaceNames[b + 1]>>)
        ELSE IF b >= 128
        THEN ret.kind = "Ok" /\ namespace = RegionEntry(OemDefined(b))
        ELSE ReturnedErr(UnexpectedByte(b)) /\ namespace = EmptyNamespace

\* The lead bytes of the Type1Opcode productions, and the second bytes of
\* those that start with ExtOpPrefix.
Type1Opcodes == {134, 159, 160, 162, 163, 164, 165, 204}
ExtType1Opcodes == {32, 33, 34, 36, 38, 39, 42, 50}

\* parse_term_object was called on bytes that start no term-object
\* production, with bytes to spare behind them.
NoProductionMatches ==
    /\ call.op = "parse_term_object"
    /\ Remaining >= 3
    /\ \/ LeadByte \notin {SCOPE_OP, EXT_OPCODE_PREFIX} \cup Type1Opcodes
       \/ /\ LeadByte = EXT_OPCODE_PREFIX
          /\ Data[PreOffset + 2] \notin
                 {EXT_OP_REGION_OP, EXT_FIELD_OP} \cup ExtType1Opcodes

\* C13: when the bytes at the cursor match no term-object production,
\* parse_term_object returns an UnexpectedByte error carrying the offending
\* byte; it neither aborts nor succeeds.
C13_NoMatchUnexpectedByte ==
    NoProductionMatches =>
        /\ ret.kind = "Err"
        /\ ret.err \in {UnexpectedByte(LeadByte), UnexpectedByte(Data[PreOffset + 2])}

====
